---- MODULE Spec2Model ----
(***************************************************************************)
(* State-machine model of moya's RemoteAgent                               *)
(* (src/moya/agents/remote_agent.py): the synchronous send                 *)
(* (handle_message), the streaming send (handle_message_stream, a Python   *)
(* generator pulled by its consumer), the tool-call dispatcher             *)
(* (handle_tool_call) and the tool-call log (tool_call_logs) they share,   *)
(* together with the construction of the agent (base_url), its health      *)
(* probe (setup) and the caller's drain of the log between turns.          *)
(*                                                                         *)
(* Python values are tagged records: t is the type tag, s the text of a    *)
(* str or of a number, items the elements of a list, m the mapping of a    *)
(* dict (a function whose domain is the set of keys).                      *)
(***************************************************************************)
EXTENDS Integers, Sequences, FiniteSets, TLC

VARIABLES base_url, tool_call_logs, gens, last

vars == <<base_url, tool_call_logs, gens, last>>

(***************************************************************************)
(* Bounds of the model.                                                    *)
(***************************************************************************)
MaxLog == 2
MaxLines == 2
MaxSessions == 1

(***************************************************************************)
(* Python values.                                                          *)
(***************************************************************************)
Str(s) == [t |-> "str", s |-> s]
Num(s) == [t |-> "num", s |-> s]
None == [t |-> "null"]
List(items) == [t |-> "list", items |-> items]
Obj(m) == [t |-> "obj", m |-> m]
EmptyDict == [t |-> "obj", m |-> <<>>]
NoValue == [t |-> "absent"]

IsStr(v) == v.t = "str"
IsDict(v) == v.t = "obj"

\* The name Python gives the type of a value in its error messages.
TypeName(v) ==
  CASE v.t = "str" -> "str"
    [] v.t = "num" -> "int"
    [] v.t = "null" -> "NoneType"
    [] v.t = "list" -> "list"
    [] v.t = "obj" -> "dict"

\* Outcome of an expression: a value, or a raised exception with its str().
Ok(v) == [ok |-> TRUE, v |-> v, exc |-> "", desc |-> ""]
Raise(exc, desc) == [ok |-> FALSE, v |-> NoValue, exc |-> exc, desc |-> desc]

\* bool(v)
Truthy(v) ==
  CASE v.t = "str" -> v.s # ""
    [] v.t = "num" -> v.s # "0"
    [] v.t = "null" -> FALSE
    [] v.t = "list" -> v.items # <<>>
    [] v.t = "obj" -> DOMAIN v.m # {}

\* v.get(key, default): only a dict has the method.
DictGet(v, key, default) ==
  IF IsDict(v)
    THEN Ok(IF key \in DOMAIN v.m THEN v.m[key] ELSE default)
    ELSE Raise("AttributeError",
               "'" \o TypeName(v) \o "' object has no attribute 'get'")

\* The characters of a str, each as a str of length one.
RECURSIVE Chars(_)
Chars(s) == IF s = "" THEN <<>> ELSE <<Str(Head(s))>> \o Chars(Tail(s))

\* The elements list.extend(v) takes from its argument: those of a list, the
\* characters of a str; a number or None is not iterable.
Iterate(v) ==
  CASE v.t = "list" -> Ok(List(v.items))
    [] v.t = "str" -> Ok(List(Chars(v.s)))
    [] OTHER -> Raise("TypeError",
                      "'" \o TypeName(v) \o "' object is not iterable")

(***************************************************************************)
(* The agent's configuration.                                              *)
(***************************************************************************)
AgentName == "remote"

\* The values of config.base_url the agent is constructed with.
BaseUrls ==
  {None, Str(""), Str("http://x"), Str("http://x/"), Str("http://x//")}

\* s.rstrip('/')
RECURSIVE RStripSlash(_)
RStripSlash(s) ==
  IF s # "" /\ SubSeq(s, Len(s), Len(s)) = "/"
    THEN RStripSlash(SubSeq(s, 1, Len(s) - 1))
    ELSE s

\* Construct that stores the configured address as it is.
ConstructVerbatim(config_base_url) ==
  IF ~Truthy(config_base_url)
    THEN Raise("ValueError", "RemoteAgent base URL is required.")
    ELSE Ok(config_base_url)

\* Lines 38-41 of __init__: the address the agent stores, or the ValueError
\* that ends the construction.
Construct(config_base_url) ==
  IF ~Truthy(config_base_url)
    THEN Raise("ValueError", "RemoteAgent base URL is required.")
    ELSE Ok(Str(RStripSlash(config_base_url.s)))

\* The endpoints, lines 62, 77 and 109.
HealthEndpoint(base) == base \o "/health"
ChatEndpoint(base) == base \o "/chat"
StreamEndpoint(base) == base \o "/chat/stream"

(***************************************************************************)
(* json.loads on the texts that occur on the wire.  The entries of a       *)
(* tool-call list are E1 and E2.                                           *)
(***************************************************************************)
E1 == Obj([id |-> Str("1")])
E2 == Obj([function |-> Obj([name |-> Str("Echo")])])

TxtHi == "{\"response\": \"hi\"}"
TxtHiCall == "{\"response\": \"hi\", \"tool_calls\": [{\"id\": \"1\"}]}"
TxtHiBadCalls == "{\"response\": \"hi\", \"tool_calls\": 5}"
TxtHiNoCalls == "{\"response\": \"hi\", \"tool_calls\": []}"
TxtNum == "{\"response\": 5}"
TxtEmptyObj == "{}"
TxtList == "[1, 2]"
TxtFive == "5"
TxtContentA == "{\"content\": \"a\"}"
TxtContentB == "{\"content\": \"b c\"}"
TxtCall1 == "{\"tool_calls\": [{\"id\": \"1\"}]}"
TxtCall2 == "{\"tool_calls\": [{\"function\": {\"name\": \"Echo\"}}]}"
TxtCall21 == "{\"tool_calls\": [{\"function\": {\"name\": \"Echo\"}}, {\"id\": \"1\"}]}"
TxtBadCalls == "{\"tool_calls\": 5}"
TxtArgs == "{\"a\":1,\"b\":\"two\"}"
TxtRaw == "hello"
TxtDone == "done"

JsonLoads(text) ==
  CASE text = TxtHi -> Ok(Obj([response |-> Str("hi")]))
    [] text = TxtHiCall ->
         Ok(Obj([response |-> Str("hi"), tool_calls |-> List(<<E1>>)]))
    [] text = TxtHiBadCalls ->
         Ok(Obj([response |-> Str("hi"), tool_calls |-> Num("5")]))
    [] text = TxtHiNoCalls ->
         Ok(Obj([response |-> Str("hi"), tool_calls |-> List(<<>>)]))
    [] text = TxtNum -> Ok(Obj([response |-> Num("5")]))
    [] text = TxtEmptyObj -> Ok(EmptyDict)
    [] text = TxtList -> Ok(List(<<Num("1"), Num("2")>>))
    [] text = TxtFive -> Ok(Num("5"))
    [] text = TxtContentA -> Ok(Obj([content |-> Str("a")]))
    [] text = TxtContentB -> Ok(Obj([content |-> Str("b c")]))
    [] text = TxtCall1 -> Ok(Obj([tool_calls |-> List(<<E1>>)]))
    [] text = TxtCall2 -> Ok(Obj([tool_calls |-> List(<<E2>>)]))
    [] text = TxtCall21 -> Ok(Obj([tool_calls |-> List(<<E2, E1>>)]))
    [] text = TxtBadCalls -> Ok(Obj([tool_calls |-> Num("5")]))
    [] text = TxtArgs -> Ok(Obj([a |-> Num("1"), b |-> Str("two")]))
    [] OTHER -> Raise("JSONDecodeError", "Expecting value: line 1 column 1 (char 0)")

(***************************************************************************)
(* The transport.  A POST either raises before any response arrives        *)
(* (k = "exc", desc the text of the exception) or returns a response with  *)
(* a status code and a body (k = "resp").                                  *)
(***************************************************************************)
NoOutcome == [k |-> "none", code |-> 0, desc |-> "", body |-> ""]
TransportExc(desc) == [k |-> "exc", code |-> 0, desc |-> desc, body |-> ""]
Response(code, body) == [k |-> "resp", code |-> code, desc |-> "", body |-> body]

StatusCodes == {200, 401, 404, 500}
TransportErrors == {"Connection reset by peer"}
ChatBodies == {TxtHi, TxtHiCall, TxtCall2, TxtCall21, TxtHiBadCalls,
               TxtHiNoCalls, TxtNum, TxtEmptyObj, TxtList, "oops"}

ChatOutcomes ==
  {TransportExc(d) : d \in TransportErrors}
    \cup {Response(c, "") : c \in StatusCodes \ {200}}
    \cup {Response(200, b) : b \in ChatBodies}

StreamOutcomes ==
  {TransportExc(d) : d \in TransportErrors}
    \cup {Response(c, "") : c \in StatusCodes}

StatusReason(code) ==
  CASE code = 401 -> "Unauthorized"
    [] code = 404 -> "Not Found"
    [] code = 500 -> "Internal Server Error"
    [] OTHER -> "OK"

\* response.raise_for_status(): HTTPError for a 4xx or 5xx status, its text
\* as the requests library formats it.
RaiseForStatus(code, url) ==
  IF 400 <= code /\ code < 500
    THEN Raise("HTTPError", ToString(code) \o " Client Error: "
                 \o StatusReason(code) \o " for url: " \o url)
  ELSE IF 500 <= code /\ code < 600
    THEN Raise("HTTPError", ToString(code) \o " Server Error: "
                 \o StatusReason(code) \o " for url: " \o url)
  ELSE Ok(None)

(***************************************************************************)
(* setup                                                                   *)
(***************************************************************************)
HealthOutcomes ==
  {TransportExc(d) : d \in TransportErrors}
    \cup {Response(c, "") : c \in {200, 500}}

\* SetupCall that does not look at the status of the response.
SetupCallLenient(base, outcome) ==
  [res |-> IF outcome.k = "exc"
             THEN Raise("ConnectionError",
                        "Failed to connect to remote agent at " \o base
                          \o ": " \o outcome.desc)
             ELSE Ok(None),
   gets |-> <<HealthEndpoint(base)>>]

\* Lines 61-66: one GET; any failure of it is raised as a ConnectionError
\* that names the base address and the failure.
\* gets is the list of the URLs it has requested.
SetupCall(base, outcome) ==
  LET health_url == HealthEndpoint(base)
      status == RaiseForStatus(outcome.code, health_url)
      e == IF outcome.k = "exc" THEN Raise("ConnectionError", outcome.desc)
                                ELSE status
  IN [res |-> IF outcome.k = "exc" \/ ~status.ok
                THEN Raise("ConnectionError",
                           "Failed to connect to remote agent at " \o base
                             \o ": " \o e.desc)
                ELSE Ok(None),
      gets |-> <<health_url>>]

(***************************************************************************)
(* handle_message                                                          *)
(***************************************************************************)
AuthFailedText == "[RemoteAgent error: Authentication failed]"
ErrorText(desc) == "[RemoteAgent error: " \o desc \o "]"

\* Extend with the new entries put in front of the log.
ExtendFront(logs, v) ==
  LET it == Iterate(v)
  IN IF it.ok THEN [res |-> Ok(None), logs |-> it.v.items \o logs]
              ELSE [res |-> it, logs |-> logs]

\* Extend that assigns the new entries to the log.
ExtendReplace(logs, v) ==
  LET it == Iterate(v)
  IN IF it.ok THEN [res |-> Ok(None), logs |-> it.v.items]
              ELSE [res |-> it, logs |-> logs]

\* self.tool_call_logs.extend(v): nothing is appended when v is not iterable.
Extend(logs, v) ==
  LET it == Iterate(v)
  IN IF it.ok THEN [res |-> Ok(None), logs |-> logs \o it.v.items]
              ELSE [res |-> it, logs |-> logs]

\* The body of the try block, lines 77-94: the value returned or the
\* exception raised, and the log it leaves.
SendTry(logs, outcome) ==
  LET endpoint == ChatEndpoint(base_url)
      status == RaiseForStatus(outcome.code, endpoint)
      json_response == JsonLoads(outcome.body)
      res_text == DictGet(json_response.v, "response", Str(""))
      tool_calls == DictGet(json_response.v, "tool_calls", List(<<>>))
      ext == Extend(logs, tool_calls.v)
  IN IF outcome.k = "exc"
       THEN [res |-> Raise("ConnectionError", outcome.desc), logs |-> logs]
     ELSE IF ~status.ok THEN [res |-> status, logs |-> logs]
     ELSE IF ~json_response.ok THEN [res |-> json_response, logs |-> logs]
     ELSE IF ~res_text.ok THEN [res |-> res_text, logs |-> logs]
     ELSE IF ~tool_calls.ok THEN [res |-> tool_calls, logs |-> logs]
     ELSE IF ~Truthy(tool_calls.v) THEN [res |-> res_text, logs |-> logs]
     ELSE IF ~ext.res.ok THEN ext
     ELSE [res |-> res_text, logs |-> ext.logs]

\* SendExcept without the test of the status code.
SendExceptNoAuth(e, code) == Str(ErrorText(e.desc))

\* SendExcept with the description of the failure left out.
SendExceptBare(e, code) ==
  IF e.exc = "HTTPError" /\ code = 401 THEN Str(AuthFailedText)
  ELSE Str("[RemoteAgent error]")

\* The except clauses, lines 96-101.
SendExcept(e, code) ==
  IF e.exc = "HTTPError"
    THEN IF code = 401 THEN Str(AuthFailedText) ELSE Str(ErrorText(e.desc))
    ELSE Str(ErrorText(e.desc))

\* HandleMessage that empties the log when the call fails.
HandleMessageClearOnError(logs, outcome) ==
  LET body == SendTry(logs, outcome)
  IN [ret |-> IF body.res.ok THEN body.res.v
                             ELSE SendExcept(body.res, outcome.code),
      raised |-> "",
      logs |-> IF body.res.ok THEN body.logs ELSE <<>>]

\* HandleMessage with the log reset at the start of the call.
HandleMessageReset(logs, outcome) ==
  LET body == SendTry(<<>>, outcome)
  IN [ret |-> IF body.res.ok THEN body.res.v
                             ELSE SendExcept(body.res, outcome.code),
      raised |-> "",
      logs |-> body.logs]

HandleMessage(logs, outcome) ==
  LET body == SendTry(logs, outcome)
  IN [ret |-> IF body.res.ok THEN body.res.v
                             ELSE SendExcept(body.res, outcome.code),
      raised |-> "",
      logs |-> body.logs]

(***************************************************************************)
(* Text helpers of the streaming loop.                                     *)
(***************************************************************************)
IsSpace(c) == c \in {" ", "\t", "\r", "\n"}

\* line.startswith(prefix)
StartsWith(line, prefix) ==
  Len(line) >= Len(prefix) /\ SubSeq(line, 1, Len(prefix)) = prefix

\* line[n:]
DropFirst(line, n) ==
  IF Len(line) <= n THEN "" ELSE SubSeq(line, n + 1, Len(line))

RECURSIVE LStrip(_)
LStrip(s) == IF s # "" /\ IsSpace(Head(s)) THEN LStrip(Tail(s)) ELSE s

RECURSIVE RStrip(_)
RStrip(s) ==
  IF s # "" /\ IsSpace(SubSeq(s, Len(s), Len(s)))
    THEN RStrip(SubSeq(s, 1, Len(s) - 1))
    ELSE s

\* s.strip()
Strip(s) == RStrip(LStrip(s))

\* key in s, for a str s: key occurs as a substring.
RECURSIVE IsSubstring(_, _)
IsSubstring(key, s) ==
  IF Len(s) < Len(key) THEN FALSE
  ELSE IF StartsWith(s, key) THEN TRUE
  ELSE IsSubstring(key, Tail(s))

\* key in v
Contains(v, key) ==
  CASE v.t = "obj" -> Ok(key \in DOMAIN v.m)
    [] v.t = "list" -> Ok(\E j \in 1..Len(v.items) : v.items[j] = Str(key))
    [] v.t = "str" -> Ok(IsSubstring(key, v.s))
    [] OTHER -> Raise("TypeError", "argument of type '" \o TypeName(v)
                                      \o "' is not iterable")

\* v[key] for a str key
Subscript(v, key) ==
  CASE v.t = "obj" ->
         IF key \in DOMAIN v.m THEN Ok(v.m[key])
                               ELSE Raise("KeyError", "'" \o key \o "'")
    [] v.t = "list" ->
         Raise("TypeError", "list indices must be integers or slices, not str")
    [] v.t = "str" -> Raise("TypeError", "string indices must be integers")
    [] OTHER -> Raise("TypeError", "'" \o TypeName(v)
                                      \o "' object is not subscriptable")

\* text + v
Concat(text, v) ==
  IF IsStr(v) THEN Ok(Str(text \o v.s))
  ELSE Raise("TypeError", "can only concatenate str (not \""
                             \o TypeName(v) \o "\") to str")

(***************************************************************************)
(* handle_message_stream: a generator.  pc is the place where it stands:   *)
(* "unused" (no such call yet), "created" (called, not pulled yet),        *)
(* "at127" (inside a pull, waiting for iter_lines), "at144", "at148",      *)
(* "at153" (suspended at the yield of that line) and "done".  open says    *)
(* that the streaming response is held open, post is the outcome of its    *)
(* POST, consumed the lines iter_lines has delivered to it, chunks the     *)
(* values it has yielded, posts the number of POSTs it has issued.  failed *)
(* says that                                                               *)
(* the except clause has run.  alone says that no other operation of the   *)
(* client has run since the call.                                          *)
(***************************************************************************)
NoGen ==
  [pc |-> "unused", open |-> FALSE, post |-> NoOutcome, posts |-> 0,
   consumed |-> <<>>, chunks |-> <<>>, current_text |-> "", failed |-> FALSE,
   alone |-> TRUE]

\* NewGen that opens the stream when the function is called.
NewGenOpened ==
  [NoGen EXCEPT !.pc = "at144", !.open = TRUE, !.posts = 1,
                !.post = Response(200, "")]

NewGen == [NoGen EXCEPT !.pc = "created"]

\* Lines 133-142: the fragment is parsed and folded into the accumulator or
\* into the log; only json.JSONDecodeError is caught here.
ProcessFragment(current_text, logs, content) ==
  LET data_chunk == JsonLoads(content)
      has == Contains(data_chunk.v, "tool_calls")
      sub == Subscript(data_chunk.v, "tool_calls")
      ext == Extend(logs, sub.v)
      got == DictGet(data_chunk.v, "content", Str(""))
      cat == Concat(current_text, got.v)
  IN IF ~data_chunk.ok
       THEN [res |-> Ok(None), text |-> current_text \o content, logs |-> logs]
     ELSE IF ~has.ok THEN [res |-> has, text |-> current_text, logs |-> logs]
     ELSE IF has.v
       THEN IF ~sub.ok
              THEN [res |-> sub, text |-> current_text, logs |-> logs]
              ELSE [res |-> ext.res, text |-> current_text, logs |-> ext.logs]
     ELSE IF ~got.ok THEN [res |-> got, text |-> current_text, logs |-> logs]
     ELSE IF ~cat.ok THEN [res |-> cat, text |-> current_text, logs |-> logs]
     ELSE [res |-> Ok(None), text |-> cat.v.s, logs |-> logs]

\* StreamExcept that ends the generator without yielding the error text.
StreamExceptSilent(g, e) ==
  [g EXCEPT !.pc = "done", !.open = FALSE, !.failed = TRUE]

\* Lines 150-153: the exception leaves the with block, which releases the
\* response, and the error text is yielded.
StreamExcept(g, e) ==
  [g EXCEPT !.pc = "at153", !.open = FALSE, !.failed = TRUE,
            !.chunks = Append(@, ErrorText(e.desc))]

\* YieldChunk that yields the text without the space.
YieldChunkBare(g, text) ==
  [g EXCEPT !.pc = "at144", !.current_text = text,
            !.chunks = Append(@, text)]

\* Line 144: yield current_text + " ".
YieldChunk(g, text) ==
  [g EXCEPT !.pc = "at144", !.current_text = text,
            !.chunks = Append(@, text \o " ")]

\* LineStep that leaves the loop at the end token.
LineStepDoneEnds(g, logs, line) ==
  LET g1 == [g EXCEPT !.consumed = Append(@, line)]
      content == Strip(DropFirst(line, 5))
      f == ProcessFragment(g.current_text, logs, content)
  IN IF line # "" /\ StartsWith(line, "data:")
       THEN IF content = "done"
              THEN [g |-> [g1 EXCEPT !.pc = "done", !.open = FALSE], logs |-> logs]
            ELSE IF content # ""
              THEN IF f.res.ok
                     THEN [g |-> YieldChunk(g1, f.text), logs |-> f.logs]
                     ELSE [g |-> StreamExcept(g1, f.res), logs |-> f.logs]
              ELSE [g |-> g1, logs |-> logs]
       ELSE [g |-> g1, logs |-> logs]

\* Lines 128-145 for one line delivered by iter_lines.
LineStep(g, logs, line) ==
  LET g1 == [g EXCEPT !.consumed = Append(@, line)]
      content == Strip(DropFirst(line, 5))
      f == ProcessFragment(g.current_text, logs, content)
  IN IF line # "" /\ StartsWith(line, "data:")
       THEN IF content # "" /\ content # "done"
              THEN IF f.res.ok
                     THEN [g |-> YieldChunk(g1, f.text), logs |-> f.logs]
                     ELSE [g |-> StreamExcept(g1, f.res), logs |-> f.logs]
              ELSE [g |-> g1, logs |-> logs]
       ELSE [g |-> g1, logs |-> logs]

\* EndOfStream that returns without releasing the response.
EndOfStreamLeak(g) ==
  IF Strip(g.current_text) # ""
    THEN [g EXCEPT !.pc = "at148", !.chunks = Append(@, g.current_text)]
    ELSE [g EXCEPT !.pc = "done"]

\* Lines 147-148 and the end of the with block.
EndOfStream(g) ==
  IF Strip(g.current_text) # ""
    THEN [g EXCEPT !.pc = "at148", !.chunks = Append(@, g.current_text)]
    ELSE [g EXCEPT !.pc = "done", !.open = FALSE]

\* What iter_lines does next: it delivers a line, it ends, or it raises.
LineEvent(text) == [k |-> "line", text |-> text]
EofEvent == [k |-> "eof", text |-> ""]
ReadErrors == {"Connection broken: IncompleteRead"}

StreamLines ==
  {"", "event: message", "data:  ", "data: done",
   "data: " \o TxtContentA, "data:" \o TxtContentB, "data: " \o TxtRaw \o " ",
   "data:" \o TxtCall1, "data: " \o TxtCall2, "data: " \o TxtCall21,
   "data: " \o TxtFive, "data: " \o TxtBadCalls}

Events ==
  {LineEvent(l) : l \in StreamLines} \cup {EofEvent}
    \cup {[k |-> "exc", text |-> d] : d \in ReadErrors}

\* One turn of the for loop of line 127 on what iter_lines does next.
LoopStep(g, logs, ev) ==
  IF ev.k = "eof" THEN [g |-> EndOfStream(g), logs |-> logs]
  ELSE IF ev.k = "exc"
    THEN [g |-> StreamExcept(g, Raise("ChunkedEncodingError", ev.text)),
          logs |-> logs]
  ELSE LineStep(g, logs, ev.text)

\* Lines 108-125: the first pull opens the stream; the log is reset once the
\* status has been checked, and the generator stands at the loop.
OpenStream(g, logs, outcome) ==
  LET endpoint == StreamEndpoint(base_url)
      g1 == [g EXCEPT !.post = outcome, !.posts = @ + 1]
      status == RaiseForStatus(outcome.code, endpoint)
  IN IF outcome.k = "exc"
       THEN [g |-> StreamExcept(g1, Raise("ConnectionError", outcome.desc)),
             logs |-> logs]
     ELSE IF ~status.ok
       THEN [g |-> StreamExcept([g1 EXCEPT !.open = TRUE], status), logs |-> logs]
     ELSE [g |-> [g1 EXCEPT !.pc = "at127", !.open = TRUE, !.current_text = ""],
           logs |-> <<>>]

\* Resume that goes back to the loop with the accumulator as it is.
ResumeKeep(g, logs, outcome) ==
  IF g.pc = "created" THEN OpenStream(g, logs, outcome)
  ELSE IF g.pc = "at144"
    THEN [g |-> [g EXCEPT !.pc = "at127"], logs |-> logs]
  ELSE IF g.pc = "at148"
    THEN [g |-> [g EXCEPT !.pc = "done", !.open = FALSE], logs |-> logs]
  ELSE [g |-> [g EXCEPT !.pc = "done"], logs |-> logs]

\* Resume that starts the generator anew after its error chunk.
ResumeRetry(g, logs, outcome) ==
  IF g.pc = "created" THEN OpenStream(g, logs, outcome)
  ELSE IF g.pc = "at144"
    THEN [g |-> [g EXCEPT !.pc = "at127", !.current_text = ""], logs |-> logs]
  ELSE IF g.pc = "at148"
    THEN [g |-> [g EXCEPT !.pc = "done", !.open = FALSE], logs |-> logs]
  ELSE [g |-> [g EXCEPT !.pc = "created"], logs |-> logs]

\* next(generator): the generator goes on from where it stands.
Resume(g, logs, outcome) ==
  IF g.pc = "created" THEN OpenStream(g, logs, outcome)
  ELSE IF g.pc = "at144"
    THEN [g |-> [g EXCEPT !.pc = "at127", !.current_text = ""], logs |-> logs]
  ELSE IF g.pc = "at148"
    THEN [g |-> [g EXCEPT !.pc = "done", !.open = FALSE], logs |-> logs]
  ELSE [g |-> [g EXCEPT !.pc = "done"], logs |-> logs]

(***************************************************************************)
(* handle_tool_call                                                        *)
(***************************************************************************)
\* The names the tool registry resolves.
ToolRegistry == {"Echo"}

\* What the resolved tool does when it is invoked.
ToolBehaviours == {"returns", "raises"}
ToolResult == Str("echoed")

\* json.dumps(v), with the separators ", " and ": " of the default encoder.
RECURSIVE JsonDumps(_)
JsonDumps(v) ==
  LET RECURSIVE Join(_)
      Join(items) ==
        IF items = <<>> THEN ""
        ELSE IF Len(items) = 1 THEN JsonDumps(items[1])
        ELSE JsonDumps(items[1]) \o ", " \o Join(Tail(items))
  IN CASE v.t = "str" -> "\"" \o v.s \o "\""
       [] v.t = "num" -> v.s
       [] v.t = "null" -> "null"
       [] v.t = "list" -> "[" \o Join(v.items) \o "]"
       [] v.t = "obj" /\ DOMAIN v.m = {} -> "{}"
       [] v.t = "obj" /\ DOMAIN v.m = {"a", "b"} ->
            "{\"a\": " \o JsonDumps(v.m["a"]) \o ", \"b\": "
              \o JsonDumps(v.m["b"]) \o "}"

\* str(v) as an f-string formats it.
Format(v) ==
  CASE v.t = "str" -> v.s
    [] v.t = "null" -> "None"
    [] OTHER -> JsonDumps(v)

\* LoadsArg that drops the arguments.
LoadsArgEmpty(v) == Ok(EmptyDict)

\* json.loads(v) of line 173: it takes a str only.
LoadsArg(v) ==
  IF IsStr(v) THEN JsonLoads(v.s)
  ELSE Raise("TypeError", "the JSON object must be str, bytes or bytearray, not "
                             \o TypeName(v))

\* tool.function(**args)
Invoke(args, behaviour) ==
  IF ~IsDict(args)
    THEN Raise("TypeError", "argument after ** must be a mapping, not "
                               \o TypeName(args))
  ELSE IF behaviour = "raises" THEN Raise("RuntimeError", "tool failed")
  ELSE Ok(ToolResult)

CallInfo(name, args, response) ==
  Obj([Tool_call_source |-> Str(AgentName),
       Tool_call_Destination |-> name,
       Tool_call_Arguments |-> Str(JsonDumps(args)),
       Tool_call_Response |-> response])

\* Lines 167-196.  invoked is the sequence of argument mappings the tool was
\* called with.
HandleToolCall(logs, tool_call, behaviour) ==
  LET function_data == DictGet(tool_call, "function", EmptyDict).v
      name == DictGet(function_data, "name", None).v
      loaded == LoadsArg(DictGet(function_data, "arguments", Str("{}")).v)
      args == IF loaded.ok THEN loaded.v ELSE EmptyDict
      found == IsStr(name) /\ name.s \in ToolRegistry
      called == Invoke(args, behaviour)
      result == IF found THEN called.v
                ELSE Str("[Tool '" \o Format(name) \o "' not found]")
  IN IF ~loaded.ok /\ loaded.exc # "JSONDecodeError"
       THEN [ret |-> NoValue, raised |-> loaded.exc, logs |-> logs,
             invoked |-> <<>>]
     ELSE IF found /\ ~called.ok
       THEN [ret |-> NoValue, raised |-> called.exc, logs |-> logs,
             invoked |-> IF IsDict(args) THEN <<args>> ELSE <<>>]
     ELSE [ret |-> result, raised |-> "",
           logs |-> Append(logs, CallInfo(name, args, result)),
           invoked |-> IF found THEN <<args>> ELSE <<>>]

\* The registry resolves the name of the descriptor.
Resolves(tool_call) ==
  LET name == DictGet(DictGet(tool_call, "function", EmptyDict).v, "name", None).v
  IN IsStr(name) /\ name.s \in ToolRegistry

\* The descriptors handed to the dispatcher.
Descriptor(name, arguments) ==
  Obj([function |-> Obj([name |-> Str(name), arguments |-> arguments])])

ToolCalls ==
  {Descriptor(n, a) : n \in {"Echo", "Xyz"},
                      a \in {Str(TxtArgs), Str(TxtRaw), Str(TxtList), Num("5")}}
    \cup {E1, E2}

(***************************************************************************)
(* The state machine.  last is the operation that ran last: what it was    *)
(* given, the URL it sent its request to (url, "" when it sent none), the  *)
(* number of requests it sent, what it returned to its caller (ret) and    *)
(* the exception it let through (raised, "" when none).  In the initial    *)
(* state it is the construction: arg is config.base_url, raised the        *)
(* ValueError of a construction that failed, after which there is no agent *)
(* to operate on.                                                          *)
(***************************************************************************)
Sessions == 1..MaxSessions

Observed(op, sid, url, outcome, arg, behaviour, ret, raised, invoked) ==
  [op |-> op, sid |-> sid, url |-> url,
   requests |-> IF url = "" THEN 0 ELSE 1,
   outcome |-> outcome, arg |-> arg,
   behaviour |-> behaviour, ret |-> ret, raised |-> raised,
   invoked |-> invoked]

\* An exhausted generator is dropped by its consumer when the next operation
\* starts.
Collect(gs, i) ==
  [j \in DOMAIN gs |-> IF j # i /\ gs[j].pc = "done" THEN NoGen ELSE gs[j]]

\* Every live generator but i has seen another operation of the client run.
Disturb(gs, i) ==
  [j \in DOMAIN gs |->
     IF j # i /\ gs[j].pc \notin {"unused", "done"}
       THEN [gs[j] EXCEPT !.alone = FALSE]
       ELSE Collect(gs, i)[j]]

\* No generator but i is suspended in the middle of its stream: the driver
\* runs one turn at a time and consumes a stream before it starts the next
\* operation.
Quiet(i) ==
  \A j \in DOMAIN gens : j # i => gens[j].pc \in {"unused", "created", "done"}

RECURSIVE SumLines(_, _)
SumLines(gs, n) == IF n = 0 THEN 0 ELSE Len(gs[n].consumed) + SumLines(gs, n - 1)

\* The lines all streams have delivered so far.
TotalLines == SumLines(gens, Len(gens))

\* The state __init__ leaves when it is given one of the addresses, for an
\* agent that will run the sessions of the set.
Constructed(addresses, sessions) ==
  \E c \in addresses :
    LET r == Construct(c)
    IN /\ base_url = (IF r.ok THEN r.v.s ELSE "")
       /\ tool_call_logs = <<>>
       /\ gens = [i \in sessions |-> NoGen]
       /\ last = Observed("init", 0, "", NoOutcome, c, "", NoValue, r.exc, <<>>)

\* The construction has not failed: there is an agent.
Usable == ~(last.op = "init" /\ last.raised # "")

Init == Constructed(BaseUrls, Sessions)

\* agent.setup()
Setup ==
  \E outcome \in HealthOutcomes :
    LET r == SetupCall(base_url, outcome)
    IN /\ Usable /\ Quiet(0)
       /\ gens' = Disturb(gens, 0)
       /\ last' = [Observed("setup", 0, r.gets[1], outcome, NoValue,
                            "", r.res.v, r.res.exc, <<>>)
                     EXCEPT !.requests = Len(r.gets)]
       /\ UNCHANGED <<base_url, tool_call_logs>>

\* agent.handle_message(message, thread_id=...)
Send ==
  \E outcome \in ChatOutcomes :
    LET r == HandleMessage(tool_call_logs, outcome)
    IN /\ Usable /\ Quiet(0)
       /\ Len(r.logs) <= MaxLog
       /\ tool_call_logs' = r.logs
       /\ gens' = Disturb(gens, 0)
       /\ last' = Observed("send", 0, ChatEndpoint(base_url), outcome, NoValue,
                           "", r.ret, r.raised, <<>>)
       /\ UNCHANGED base_url

\* agent.handle_message_stream(message, thread_id=...): the call only makes
\* the generator; nothing of its body runs.
NewStream ==
  \E i \in DOMAIN gens :
    /\ Usable /\ Quiet(0)
    /\ gens[i].pc = "unused"
    /\ \A j \in DOMAIN gens : j < i => gens[j].pc # "unused"
    /\ gens' = [Collect(gens, i) EXCEPT ![i] = NewGen]
    /\ last' = Observed("stream", i, "", NoOutcome, NoValue, "", NoValue, "", <<>>)
    /\ UNCHANGED <<base_url, tool_call_logs>>

\* What a pull hands to the consumer when the generator has moved from g to
\* h: the chunk it yielded, if it yielded one.
Handed(g, h) ==
  IF Len(h.chunks) > Len(g.chunks) THEN Str(h.chunks[Len(h.chunks)]) ELSE NoValue

\* next(generator) by the consumer of session i: the generator, suspended or
\* not yet started, goes on.
Pull(i) ==
  /\ gens[i].pc \in {"created", "at144", "at148", "at153"}
  /\ Quiet(i)
  /\ \E outcome \in (IF gens[i].pc = "created" THEN StreamOutcomes ELSE {NoOutcome}) :
       LET r == Resume(gens[i], tool_call_logs, outcome)
       IN /\ tool_call_logs' = r.logs
          /\ gens' = [Disturb(gens, i) EXCEPT ![i] = r.g]
          /\ last' = Observed("pull", i,
                              IF gens[i].pc = "created"
                                THEN StreamEndpoint(base_url) ELSE "",
                              outcome, NoValue, "",
                              Handed(gens[i], r.g), "", <<>>)
          /\ UNCHANGED base_url

\* Inside a pull of session i, iter_lines delivers a line, ends or raises,
\* and the loop runs one turn; the pull returns when the generator yields
\* or ends.
ReadLine(i) ==
  /\ gens[i].pc = "at127"
  /\ \E ev \in Events :
       LET r == LoopStep(gens[i], tool_call_logs, ev)
       IN /\ ev.k = "line" => TotalLines < MaxLines
          /\ Len(r.logs) <= MaxLog
          /\ tool_call_logs' = r.logs
          /\ gens' = [gens EXCEPT ![i] = r.g]
          /\ last' = [last EXCEPT !.ret = Handed(gens[i], r.g)]
          /\ UNCHANGED base_url

\* agent.handle_tool_call(tool_call)
ToolCall ==
  \E tool_call \in ToolCalls :
  \E behaviour \in (IF Resolves(tool_call) THEN ToolBehaviours ELSE {"absent"}) :
    LET r == HandleToolCall(tool_call_logs, tool_call, behaviour)
    IN /\ Usable /\ Quiet(0)
       /\ Len(r.logs) <= MaxLog
       /\ tool_call_logs' = r.logs
       /\ gens' = Disturb(gens, 0)
       /\ last' = Observed("tool", 0, "", NoOutcome, tool_call, behaviour,
                           r.ret, r.raised, r.invoked)
       /\ UNCHANGED base_url

\* The two example drivers that write an utterance log for every turn.
Drivers == {"multiagent", "openai"}

\* f"ToolCall{idx}"
KeyOf(idx) == "ToolCall" \o ToString(idx)

\* final_agent_tool_call: the record of the driver's own call of the store,
\* for a turn of thread "t1" whose response is "hi".
FinalCall(driver) ==
  Obj([Tool_call_source |->
         Str(IF driver = "multiagent" THEN AgentName ELSE "Agent"),
       Tool_call_Destination |-> Str("Store"),
       Tool_call_Arguments |->
         Str((IF driver = "multiagent" THEN ""
                ELSE "EphemeralMemory.store_message , ")
               \o "thread_id: t1, sender: assistant, content: hi"),
       Tool_call_Response |-> Str("Success")])

\* idx when the loop over the entries of the log has ended.  The multiagent
\* driver starts it at 1 and adds one per entry; the openai driver starts it
\* at 0 and sets it to i + 1 for the entry at position i, counted from 1, so
\* it stays 0 when the log is empty.
FinalIndex(driver, logs) ==
  IF driver = "multiagent" THEN 1 + Len(logs)
  ELSE IF logs = <<>> THEN 0 ELSE Len(logs) + 1

\* tool_calls_log of a turn: the loop of either driver stores the entry at
\* position i under f"ToolCall{i}", and the Store call is then assigned to
\* f"ToolCall{idx}".
TurnLog(driver, logs) ==
  LET last_key == KeyOf(FinalIndex(driver, logs))
      final == FinalCall(driver)
  IN Obj([k \in {KeyOf(i) : i \in DOMAIN logs} \cup {last_key} |->
            IF k = last_key THEN final
            ELSE logs[CHOOSE i \in DOMAIN logs : KeyOf(i) = k]])

\* The end of a turn in a driver: the log is copied into the utterance log
\* of the turn, the driver's Store call is put behind it, and the log is
\* cleared.
Drain ==
  \E driver \in Drivers :
    /\ Usable /\ Quiet(0)
    /\ tool_call_logs' = <<>>
    /\ gens' = Disturb(gens, 0)
    /\ last' = Observed("drain", 0, "", NoOutcome, Str(driver), "",
                        TurnLog(driver, tool_call_logs), "", <<>>)
    /\ UNCHANGED base_url

Next ==
  \/ Setup
  \/ Send
  \/ NewStream
  \/ \E i \in Sessions : Pull(i)
  \/ \E i \in Sessions : ReadLine(i)
  \/ ToolCall
  \/ Drain

Spec == Init /\ [][Next]_vars

(***************************************************************************)
(* The agent constructed with any address, also one made of slashes only,  *)
(* and the operations that do not stream.                                  *)
(***************************************************************************)
AnyBaseUrls == BaseUrls \cup {Str("/"), Str("//")}

InitAnyBase == Constructed(AnyBaseUrls, Sessions)

NextNoStream ==
  \/ Setup
  \/ Send
  \/ ToolCall
  \/ Drain

SpecAnyBase == InitAnyBase /\ [][NextNoStream]_vars

(***************************************************************************)
(* The streaming sessions alone, with a consumer that keeps pulling and a  *)
(* transport that keeps answering: a pull of a generator that can go on    *)
(* is eventually made, and iter_lines eventually delivers a line, ends or  *)
(* raises.  The consumer may also pull a generator that has ended, or      *)
(* close one early.                                                        *)
(***************************************************************************)
\* No generator is running: the one thread of the client is not inside a
\* pull, so its consumer can start another operation.
Idle == \A j \in DOMAIN gens : gens[j].pc # "at127"

\* next(generator) on a generator that has returned: StopIteration, and
\* nothing of the body runs.
PullEnded(i) ==
  /\ Idle
  /\ gens[i].pc = "done"
  /\ last' = Observed("pull", i, "", NoOutcome, NoValue, "", NoValue,
                      "StopIteration", <<>>)
  /\ UNCHANGED <<base_url, tool_call_logs, gens>>

\* generator.close(), by the consumer or when the generator is collected:
\* GeneratorExit is raised at the yield where the generator stands; it is
\* no Exception, so line 150 does not catch it, and it leaves the with
\* block, which releases the response.  A generator that has not started
\* just ends.
Close(i) ==
  /\ Idle
  /\ gens[i].pc \in {"created", "at144", "at148", "at153"}
  /\ gens' = [gens EXCEPT ![i] = [@ EXCEPT !.pc = "done", !.open = FALSE]]
  /\ last' = Observed("close", i, "", NoOutcome, NoValue, "", NoValue, "", <<>>)
  /\ UNCHANGED <<base_url, tool_call_logs>>

NextStream ==
  \/ NewStream
  \/ \E i \in Sessions : Pull(i)
  \/ \E i \in Sessions : ReadLine(i)
  \/ \E i \in Sessions : PullEnded(i)
  \/ \E i \in Sessions : Close(i)

SpecStream ==
  /\ Init /\ [][NextStream]_vars
  /\ \A i \in Sessions : WF_vars(Pull(i)) /\ WF_vars(ReadLine(i))

(***************************************************************************)
(* One client whose caller does not wait for a stream to be consumed: two  *)
(* generators of the same agent are pulled in any order, and sends and     *)
(* tool calls run between their pulls.  Python runs one of them at a time  *)
(* (a generator runs only inside next()), so an operation starts only when *)
(* no generator is running.  The inputs are a few of those above.          *)
(***************************************************************************)
SharedSessions == {1, 2}

SharedOpenings == {Response(200, ""), Response(401, "")}

SharedEvents ==
  {LineEvent(l) : l \in {"data:" \o TxtCall1, "data: " \o TxtCall2,
                         "data: " \o TxtContentA, "event: message"}}
    \cup {EofEvent}

SharedChats == {Response(200, TxtHiCall), Response(500, "")}

SharedToolCalls == {Descriptor("Xyz", Str(TxtArgs))}

InitShared == Constructed({Str("http://x/")}, SharedSessions)

\* agent.handle_message_stream(...) while other generators may be suspended.
SharedStream ==
  \E i \in DOMAIN gens :
    /\ Idle
    /\ gens[i].pc = "unused"
    /\ \A j \in DOMAIN gens : j < i => gens[j].pc # "unused"
    /\ gens' = [gens EXCEPT ![i] = NewGen]
    /\ last' = Observed("stream", i, "", NoOutcome, NoValue, "", NoValue, "", <<>>)
    /\ UNCHANGED <<base_url, tool_call_logs>>

\* next(generator) of session i, whatever the other generators stand at.
SharedPull(i) ==
  /\ Idle
  /\ gens[i].pc \in {"created", "at144", "at148", "at153"}
  /\ \E outcome \in (IF gens[i].pc = "created" THEN SharedOpenings ELSE {NoOutcome}) :
       LET r == Resume(gens[i], tool_call_logs, outcome)
       IN /\ tool_call_logs' = r.logs
          /\ gens' = [gens EXCEPT ![i] = r.g]
          /\ last' = Observed("pull", i,
                              IF gens[i].pc = "created"
                                THEN StreamEndpoint(base_url) ELSE "",
                              outcome, NoValue, "",
                              Handed(gens[i], r.g), "", <<>>)
          /\ UNCHANGED base_url

\* One turn of the loop of the generator that is running.
SharedReadLine(i) ==
  /\ gens[i].pc = "at127"
  /\ \E ev \in SharedEvents :
       LET r == LoopStep(gens[i], tool_call_logs, ev)
       IN /\ ev.k = "line" => TotalLines < MaxLines
          /\ Len(r.logs) <= MaxLog
          /\ tool_call_logs' = r.logs
          /\ gens' = [gens EXCEPT ![i] = r.g]
          /\ last' = [last EXCEPT !.ret = Handed(gens[i], r.g)]
          /\ UNCHANGED base_url

\* agent.handle_message(...) between two pulls.
SharedSend ==
  \E outcome \in SharedChats :
    LET r == HandleMessage(tool_call_logs, outcome)
    IN /\ Idle
       /\ Len(r.logs) <= MaxLog
       /\ tool_call_logs' = r.logs
       /\ last' = Observed("send", 0, ChatEndpoint(base_url), outcome, NoValue,
                           "", r.ret, r.raised, <<>>)
       /\ UNCHANGED <<base_url, gens>>

\* agent.handle_tool_call(...) between two pulls.
SharedToolCall ==
  \E tool_call \in SharedToolCalls :
    LET r == HandleToolCall(tool_call_logs, tool_call, "absent")
    IN /\ Idle
       /\ Len(r.logs) <= MaxLog
       /\ tool_call_logs' = r.logs
       /\ last' = Observed("tool", 0, "", NoOutcome, tool_call, "absent",
                           r.ret, r.raised, r.invoked)
       /\ UNCHANGED <<base_url, gens>>

NextShared ==
  \/ SharedStream
  \/ \E i \in SharedSessions : SharedPull(i)
  \/ \E i \in SharedSessions : SharedReadLine(i)
  \/ SharedSend
  \/ SharedToolCall

SpecShared == InitShared /\ [][NextShared]_vars

(***************************************************************************)
(* What the properties speak of.                                           *)
(***************************************************************************)
\* The text a payload line carries, "" for a line that is none.
PayloadOf(line) ==
  IF StartsWith(line, "data:") THEN Strip(DropFirst(line, 5)) ELSE ""

\* The line is an accepted payload line.
IsPayload(line) == PayloadOf(line) # "" /\ PayloadOf(line) # "done"

\* The tool-call list of a payload line, <<>> for a line that carries none.
CallsIn(line) ==
  LET p == JsonLoads(PayloadOf(line))
  IN IF IsPayload(line) /\ p.ok /\ IsDict(p.v) /\ "tool_calls" \in DOMAIN p.v.m
        /\ p.v.m["tool_calls"].t = "list"
       THEN p.v.m["tool_calls"].items
       ELSE <<>>

\* The tool-call lists of the lines, joined in the order of the lines.
RECURSIVE ToolCallsOf(_)
ToolCallsOf(lines) ==
  IF lines = <<>> THEN <<>> ELSE CallsIn(Head(lines)) \o ToolCallsOf(Tail(lines))

\* The line is a payload line that carries a tool-call list.
IsToolFragment(line) ==
  LET p == JsonLoads(PayloadOf(line))
  IN IsPayload(line) /\ p.ok /\ IsDict(p.v) /\ "tool_calls" \in DOMAIN p.v.m

\* The number of payload lines that carry text: content fragments and
\* fragments that are not JSON.
RECURSIVE TextDeltas(_)
TextDeltas(lines) ==
  IF lines = <<>> THEN 0
  ELSE (IF IsPayload(Head(lines)) /\ ~IsToolFragment(Head(lines)) THEN 1 ELSE 0)
         + TextDeltas(Tail(lines))

IsErrorChunk(c) == StartsWith(c, "[RemoteAgent error: ")

\* The stream of the generator was opened: the POST came back with a status
\* that raise_for_status accepts.
Opened(g) == g.post.k = "resp" /\ g.post.code < 400

IsPrefix(a, b) == Len(a) <= Len(b) /\ SubSeq(b, 1, Len(a)) = a

\* The body has the shape of the wire protocol: an object whose tool_calls,
\* when there is one, is a list.
WellFormedBody(text) ==
  LET p == JsonLoads(text)
  IN p.ok /\ IsDict(p.v)
       /\ ("tool_calls" \in DOMAIN p.v.m => p.v.m["tool_calls"].t = "list")

CallRecordKeys ==
  {"Tool_call_source", "Tool_call_Destination", "Tool_call_Arguments",
   "Tool_call_Response"}

\* A call record: the four fields, the arguments a string.
IsCallRecord(e) ==
  IsDict(e) /\ DOMAIN e.m = CallRecordKeys /\ IsStr(e.m["Tool_call_Arguments"])

\* The name handle_tool_call reads from a tool-call entry, lines 167-168.
NameOf(entry) ==
  DictGet(DictGet(entry, "function", EmptyDict).v, "name", None).v

RECURSIVE NamesOf(_)
NamesOf(entries) ==
  IF entries = <<>> THEN <<>>
  ELSE <<NameOf(Head(entries))>> \o NamesOf(Tail(entries))

\* The destinations of the call records of the log, in log order: one for
\* every call the dispatcher has completed.
RECURSIVE Destinations(_)
Destinations(logs) ==
  IF logs = <<>> THEN <<>>
  ELSE (IF IsCallRecord(Head(logs))
          THEN <<Head(logs).m["Tool_call_Destination"]>> ELSE <<>>)
         \o Destinations(Tail(logs))

\* The last n elements of a sequence.
LastN(seq, n) ==
  IF Len(seq) <= n THEN seq ELSE SubSeq(seq, Len(seq) - n + 1, Len(seq))

\* The step has made session i process one more line.
ReadsLine(g, h) ==
  Len(h.consumed) = Len(g.consumed) + 1
    /\ SubSeq(h.consumed, 1, Len(g.consumed)) = g.consumed

\* The text delta of a payload that carries no tool-call list: the payload
\* itself when it is not JSON, else its content field, "" when it has none.
DeltaOf(line) ==
  LET p == JsonLoads(PayloadOf(line))
  IN IF ~p.ok THEN PayloadOf(line)
     ELSE IF IsDict(p.v) /\ "content" \in DOMAIN p.v.m /\ IsStr(p.v.m["content"])
       THEN p.v.m["content"].s
     ELSE ""

\* The line is a content fragment {"content": s} with s a string.
IsContentFragment(line) ==
  LET p == JsonLoads(PayloadOf(line))
  IN IsPayload(line) /\ p.ok /\ IsDict(p.v) /\ DOMAIN p.v.m = {"content"}
       /\ IsStr(p.v.m["content"])

\* The contents of the content fragments among the lines, in line order.
RECURSIVE Contents(_)
Contents(lines) ==
  IF lines = <<>> THEN <<>>
  ELSE (IF IsContentFragment(Head(lines))
          THEN <<JsonLoads(PayloadOf(Head(lines))).v.m["content"].s>> ELSE <<>>)
         \o Contents(Tail(lines))

\* A chunk without the space the session has put at its end.
RemoveJoin(chunk) ==
  IF chunk # "" /\ SubSeq(chunk, Len(chunk), Len(chunk)) = " "
    THEN SubSeq(chunk, 1, Len(chunk) - 1)
    ELSE chunk

\* The texts joined into one.
RECURSIVE JoinAll(_)
JoinAll(texts) ==
  IF texts = <<>> THEN "" ELSE Head(texts) \o JoinAll(Tail(texts))

\* The text returned for a name the registry does not resolve, line 191.
NotFoundText(name) == "[Tool '" \o Format(name) \o "' not found]"

\* The field of a call record, NoValue for an entry that has none.
Field(e, key) ==
  IF IsDict(e) /\ key \in DOMAIN e.m THEN e.m[key] ELSE NoValue

\* The arguments value of a descriptor, "{}" when it has none, line 173.
ArgumentsOf(tool_call) ==
  DictGet(DictGet(tool_call, "function", EmptyDict).v, "arguments", Str("{}")).v

\* The arguments value is a string that holds a JSON object.
HasObjectArguments(tool_call) ==
  /\ IsStr(ArgumentsOf(tool_call))
  /\ JsonLoads(ArgumentsOf(tool_call).s).ok
  /\ IsDict(JsonLoads(ArgumentsOf(tool_call).s).v)

EndsWithSlash(s) == s # "" /\ SubSeq(s, Len(s), Len(s)) = "/"

\* The part of a URL behind the "://" of its scheme.
RECURSIVE AfterScheme(_)
AfterScheme(url) ==
  IF ~IsSubstring("://", url) THEN url
  ELSE IF StartsWith(url, "://") THEN DropFirst(url, 3)
  ELSE AfterScheme(Tail(url))

\* The URL is the base address followed by the path, with no double slash
\* behind the scheme.
IsEndpoint(url, base, path) ==
  url = base \o path /\ ~IsSubstring("//", AfterScheme(url))

(***************************************************************************)
(* Properties.                                                             *)
(***************************************************************************)

\* C1: whatever the outcome of the POST to /chat, handle_message returns a
\* string and lets no exception through.
C1_SendReturnsString ==
  last.op = "send" => (last.raised = "" /\ IsStr(last.ret))

\* C2: at the step in which a streaming session fails, the generator yields
\* one error-tagged chunk after the chunks it had yielded before; after that
\* it yields nothing more and its next pull ends it; no pull lets an
\* exception through.
C2_StreamErrorChunk ==
  [][\A i \in Sessions :
       /\ (~gens[i].failed /\ gens'[i].failed) =>
            /\ gens'[i].pc = "at153"
            /\ Len(gens'[i].chunks) = Len(gens[i].chunks) + 1
            /\ SubSeq(gens'[i].chunks, 1, Len(gens[i].chunks)) = gens[i].chunks
            /\ IsErrorChunk(gens'[i].chunks[Len(gens'[i].chunks)])
            /\ \A k \in 1..Len(gens[i].chunks) : ~IsErrorChunk(gens[i].chunks[k])
            /\ last'.op = "pull" /\ last'.sid = i
            /\ last'.ret = Str(gens'[i].chunks[Len(gens'[i].chunks)])
       /\ (gens[i].failed /\ gens'[i] # gens[i] /\ gens'[i].pc # "unused") =>
            /\ gens'[i].pc = "done"
            /\ gens'[i].chunks = gens[i].chunks
            /\ last'.ret = NoValue
       /\ (last'.op = "pull" => last'.raised = "")]_vars

\* A session has failed in the middle of its stream, after it had yielded a
\* chunk, and has ended.
C2_Witness ==
  \E i \in Sessions :
    /\ gens[i].failed /\ gens[i].pc = "done"
    /\ Len(gens[i].chunks) = 2 /\ Len(gens[i].consumed) >= 1

\* C3: in a session that ends without error the number of chunks yielded is
\* the number of text-delta fragments; a tool-call fragment gives no chunk.
C3_NoChunkForToolCalls ==
  \A i \in Sessions :
    (gens[i].pc = "done" /\ ~gens[i].failed) =>
       Len(gens[i].chunks) = TextDeltas(gens[i].consumed)

\* C4: after a streaming session has ended, whatever its outcome, the log
\* holds the tool calls discovered during the session and nothing that was
\* in it before the call.
C4_OnlyThisSession ==
  \A i \in Sessions :
    (gens[i].pc = "done" /\ gens[i].alone) =>
       tool_call_logs = ToolCallsOf(gens[i].consumed)

\* C5: from the moment its stream is open, and with no other operation in
\* between, the log of a session is the tool-call lists of the fragments it
\* has processed, joined in arrival order; also when it fails mid-stream.
C5_LogIsFragmentsInOrder ==
  \A i \in Sessions :
    Opened(gens[i]) => tool_call_logs = ToolCallsOf(gens[i].consumed)

\* A session that processed two tool-call fragments with different entries
\* and then failed mid-stream has ended.
C5_Witness ==
  \E i \in Sessions :
    /\ Opened(gens[i]) /\ gens[i].failed /\ gens[i].pc = "done"
    /\ Len(gens[i].consumed) = 2
    /\ Len(tool_call_logs) = 2 /\ tool_call_logs[1] # tool_call_logs[2]

\* C6: every call of handle_tool_call appends exactly one record.  A step
\* that ends with last.op = "tool" is a step of ToolCall.
C6_OneRecordPerCall ==
  [][last'.op = "tool" => Len(tool_call_logs') = Len(tool_call_logs) + 1]_vars

\* C7: when the POST to /chat answers 401, handle_message returns the
\* authentication-failure sentinel and does not raise.
C7_AuthSentinel ==
  (last.op = "send" /\ last.outcome.k = "resp" /\ last.outcome.code = 401) =>
     (last.ret = Str("[RemoteAgent error: Authentication failed]")
        /\ last.raised = "")

C7_Witness ==
  last.op = "send" /\ last.outcome.k = "resp" /\ last.outcome.code = 401

\* The description of the failure of a POST: the text of the transport
\* exception, the text of the HTTPError, which starts with the status code,
\* or the text of the JSON decoder.
DescribesFailure(desc, outcome) ==
  IF outcome.k = "exc" THEN desc = outcome.desc
  ELSE IF outcome.code >= 400
    THEN StartsWith(desc, ToString(outcome.code) \o " ")
           /\ IsSubstring("Error", desc)
  ELSE desc = "Expecting value: line 1 column 1 (char 0)"

\* C8: on an HTTP error status other than 401, a transport exception or a
\* body that is not JSON, handle_message returns "[RemoteAgent error: <d>]"
\* with d the description of that failure.
C8_GenericSentinel ==
  (/\ last.op = "send"
   /\ \/ last.outcome.k = "exc"
      \/ last.outcome.k = "resp" /\ last.outcome.code >= 400
           /\ last.outcome.code # 401
      \/ last.outcome.k = "resp" /\ last.outcome.code < 400
           /\ ~JsonLoads(last.outcome.body).ok)
  => /\ last.raised = ""
     /\ IsStr(last.ret)
     /\ StartsWith(last.ret.s, "[RemoteAgent error: ")
     /\ Len(last.ret.s) > 21
     /\ SubSeq(last.ret.s, Len(last.ret.s), Len(last.ret.s)) = "]"
     /\ DescribesFailure(SubSeq(last.ret.s, 21, Len(last.ret.s) - 1), last.outcome)

C8_Witness ==
  /\ last.op = "send" /\ last.outcome.k = "resp" /\ last.outcome.code = 500
  /\ tool_call_logs # <<>>

\* C9: on a successful POST with a body of the protocol's shape,
\* handle_message returns the response field ("" when absent) and appends
\* the entries of tool_calls to the log in list order; no send removes or
\* reorders what the log holds.  A step that ends with last.op = "send" is
\* a step of Send.
C9_SendAppends ==
  [][last'.op = "send" =>
       /\ IsPrefix(tool_call_logs, tool_call_logs')
       /\ (last'.outcome.k = "resp" /\ last'.outcome.code < 400
             /\ WellFormedBody(last'.outcome.body)) =>
            LET m == JsonLoads(last'.outcome.body).v.m
            IN /\ last'.ret = (IF "response" \in DOMAIN m THEN m["response"]
                                                        ELSE Str(""))
               /\ tool_call_logs' =
                    tool_call_logs \o (IF "tool_calls" \in DOMAIN m
                                         THEN m["tool_calls"].items ELSE <<>>)]_vars

\* Two sends in a row, with no drain in between, have left their tool calls.
C9_Witness ==
  /\ last.op = "send" /\ last.outcome.body = TxtCall2
  /\ last.ret = Str("")
  /\ tool_call_logs = <<E1, E2>>

\* C10: every entry of the log is a call record with the four fields.
C10_LogHoldsCallRecords ==
  \A k \in 1..Len(tool_call_logs) : IsCallRecord(tool_call_logs[k])

C12_PayloadsClassified ==
  [][\A i \in Sessions :
       (/\ ReadsLine(gens[i], gens'[i])
        /\ IsPayload(gens'[i].consumed[Len(gens'[i].consumed)])
        /\ ~IsToolFragment(gens'[i].consumed[Len(gens'[i].consumed)]))
       => /\ ~gens'[i].failed
          /\ gens'[i].pc = "at144" /\ gens'[i].open
          /\ gens'[i].chunks =
               Append(gens[i].chunks,
                      DeltaOf(gens'[i].consumed[Len(gens'[i].consumed)]) \o " ")
          /\ tool_call_logs' = tool_call_logs]_vars

\* C13: in a session all of whose payload lines are content fragments, the
\* chunks yielded are, in arrival order, the content of each fragment
\* followed by one space (an error chunk may follow them when the transport
\* fails); with the spaces removed they join into the joined contents.
C13_ContentRoundTrip ==
  \A i \in Sessions :
    (/\ Opened(gens[i])
     /\ \A k \in 1..Len(gens[i].consumed) :
          IsPayload(gens[i].consumed[k]) => IsContentFragment(gens[i].consumed[k]))
    => LET cs == Contents(gens[i].consumed)
           chunks == gens[i].chunks
       IN /\ Len(chunks) = Len(cs) + (IF gens[i].failed THEN 1 ELSE 0)
          /\ \A k \in 1..Len(cs) : chunks[k] = cs[k] \o " "
          /\ JoinAll([k \in 1..Len(cs) |-> RemoveJoin(chunks[k])]) = JoinAll(cs)

\* A session has yielded the chunks of two different content fragments and
\* has ended without error.
C13_Witness ==
  \E i \in Sessions :
    /\ gens[i].pc = "done" /\ ~gens[i].failed
    /\ gens[i].consumed = <<"data:" \o TxtContentB, "data: " \o TxtContentA>>
    /\ gens[i].chunks = <<"b c ", "a ">>

\* C14: whenever a session that no other operation has disturbed is
\* suspended at a yield (its consumer has just received a chunk) and has
\* processed no tool-call fragment yet, the log is empty, whatever it held
\* before the session.
C14_EmptyBeforeFirstToolCall ==
  \A i \in Sessions :
    (/\ gens[i].alone
     /\ gens[i].pc \in {"at144", "at148", "at153"}
     /\ \A k \in 1..Len(gens[i].consumed) : ~IsToolFragment(gens[i].consumed[k]))
    => tool_call_logs = <<>>

\* C15: a line that does not start with "data:", a payload that is empty
\* once prefix and whitespace are stripped, and the end token "done" give
\* no chunk and no log record, and the session goes on reading (also after
\* "done"); a stream without payload lines gives no chunk and no record.
C15_SkippedLines ==
  [][\A i \in Sessions :
       /\ (/\ ReadsLine(gens[i], gens'[i])
           /\ ~IsPayload(gens'[i].consumed[Len(gens'[i].consumed)]))
          => /\ gens'[i].chunks = gens[i].chunks
             /\ tool_call_logs' = tool_call_logs
             /\ gens'[i].pc = "at127" /\ gens'[i].open /\ ~gens'[i].failed
       /\ (/\ Opened(gens'[i]) /\ ~gens'[i].failed
           /\ \A k \in 1..Len(gens'[i].consumed) : ~IsPayload(gens'[i].consumed[k]))
          => (gens'[i].chunks = <<>> /\ tool_call_logs' = <<>>)]_vars

\* A session has read the end token and, after it, a content fragment, whose
\* chunk it has yielded.
C15_Witness ==
  \E i \in Sessions :
    /\ gens[i].consumed = <<"data: done", "data: " \o TxtContentA>>
    /\ gens[i].chunks = <<"a ">>
    /\ gens[i].pc = "done"

\* C16: a call of handle_tool_call with a name the registry does not resolve
\* returns "[Tool '<name>' not found]", raises nothing and appends one
\* record with that name as destination and the placeholder as response;
\* a second such call with the same name appends a second record with the
\* same destination and response.
C16_NotFoundPlaceholder ==
  [][(last'.op = "tool" /\ ~Resolves(last'.arg)) =>
       /\ last'.raised = ""
       /\ last'.ret = Str(NotFoundText(NameOf(last'.arg)))
       /\ last'.invoked = <<>>
       /\ Len(tool_call_logs') = Len(tool_call_logs) + 1
       /\ SubSeq(tool_call_logs', 1, Len(tool_call_logs)) = tool_call_logs
       /\ LET rec == tool_call_logs'[Len(tool_call_logs')]
          IN /\ IsCallRecord(rec)
             /\ Field(rec, "Tool_call_Destination") = NameOf(last'.arg)
             /\ Field(rec, "Tool_call_Response") = last'.ret
             /\ (last.op = "tool" /\ NameOf(last.arg) = NameOf(last'.arg)) =>
                  LET prev == tool_call_logs[Len(tool_call_logs)]
                  IN /\ Field(prev, "Tool_call_Destination")
                          = Field(rec, "Tool_call_Destination")
                     /\ Field(prev, "Tool_call_Response")
                          = Field(rec, "Tool_call_Response")]_vars

\* C17: after a call of handle_tool_call whose name the registry resolves
\* and whose argument string holds a JSON object, the tool has been invoked
\* exactly once, with the members of that object as its named arguments;
\* when the tool returns a value, the call returns that value and the record
\* it has appended holds it as response.
C17_ArgumentsForwarded ==
  (last.op = "tool" /\ Resolves(last.arg) /\ HasObjectArguments(last.arg)) =>
     /\ last.invoked = <<JsonLoads(ArgumentsOf(last.arg).s).v>>
     /\ last.behaviour = "returns" =>
          /\ last.raised = ""
          /\ last.ret = ToolResult
          /\ tool_call_logs # <<>>
          /\ LET rec == tool_call_logs[Len(tool_call_logs)]
             IN /\ IsCallRecord(rec)
                /\ Field(rec, "Tool_call_Destination") = NameOf(last.arg)
                /\ Field(rec, "Tool_call_Response") = ToolResult

\* The tool has been called with a = 1 and b = "two" and has returned; the
\* record stands behind an earlier entry of the log.
C17_Witness ==
  /\ last.op = "tool" /\ last.ret = ToolResult
  /\ last.invoked = <<Obj([a |-> Num("1"), b |-> Str("two")])>>
  /\ Len(tool_call_logs) = 2
  /\ Field(tool_call_logs[2], "Tool_call_Arguments") = Str("{\"a\": 1, \"b\": \"two\"}")

\* C18: after a call of handle_tool_call whose arguments value json.loads
\* cannot parse, the call has not failed for it: the arguments were taken
\* as empty, so a resolved tool was invoked with no arguments, the record
\* appended holds "{}" as arguments and a response was returned (a tool
\* that itself raises is left aside).
C18_TolerantArguments ==
  (/\ last.op = "tool"
   /\ ~LoadsArg(ArgumentsOf(last.arg)).ok
   /\ last.behaviour # "raises")
  => /\ last.raised = ""
     /\ last.ret # NoValue
     /\ Resolves(last.arg) => last.invoked = <<EmptyDict>>
     /\ tool_call_logs # <<>>
     /\ Field(tool_call_logs[Len(tool_call_logs)], "Tool_call_Arguments")
          = Str("{}")

\* C19: a session whose POST to /chat/stream was answered 401 yields one
\* chunk, the authentication-failure sentinel that handle_message returns on
\* a 401, and nothing else.
C19_StreamAuthSentinel ==
  \A i \in Sessions :
    (/\ gens[i].post.k = "resp" /\ gens[i].post.code = 401
     /\ gens[i].pc \in {"at153", "done"})
    => gens[i].chunks = <<SendExcept(Raise("HTTPError", ""), 401).s>>

\* C20: for every base address the constructor accepts, the stored address
\* does not end with "/" and no operation changes it; the URL of every
\* request is that address followed by "/health" (setup), "/chat"
\* (handle_message) or "/chat/stream" (handle_message_stream), with no
\* double slash, and it is the URL an HTTP error names; the configured
\* address "http://x/" gives the chat endpoint "http://x/chat".
C20_BaseAddress ==
  /\ [](/\ ~EndsWithSlash(base_url)
        /\ \A c \in BaseUrls :
             Construct(c).ok => ~EndsWithSlash(Construct(c).v.s)
        /\ Construct(Str("http://x/")).ok
        /\ ChatEndpoint(Construct(Str("http://x/")).v.s) = "http://x/chat"
        /\ last.op = "setup" => IsEndpoint(last.url, base_url, "/health")
        /\ last.op = "send" =>
             /\ IsEndpoint(last.url, base_url, "/chat")
             /\ (last.outcome.code >= 400 /\ last.outcome.code # 401) =>
                  IsSubstring(" for url: " \o base_url \o "/chat]", last.ret.s)
        /\ (last.op = "pull" /\ last.url # "") =>
             /\ IsEndpoint(last.url, base_url, "/chat/stream")
             /\ last.outcome.code >= 400 =>
                  IsSubstring(" for url: " \o base_url \o "/chat/stream]",
                              last.ret.s)
        /\ last.op \in {"init", "stream", "tool", "drain"} => last.url = "")
  /\ [][base_url' = base_url]_vars

\* A send has been answered 404 and its error text names the chat endpoint
\* built from the configured address "http://x/".
C20_Witness ==
  /\ base_url = Construct(Str("http://x/")).v.s
  /\ last.op = "send" /\ last.url = "http://x/chat"
  /\ last.ret = Str("[RemoteAgent error: 404 Client Error: Not Found for url: http://x/chat]")

\* C21: a construction with an absent or empty base address has failed with
\* the configuration error and has left no usable agent; a construction
\* with a non-empty base address has succeeded, the address it has stored is
\* not empty and the log is empty.
C21_Construction ==
  last.op = "init" =>
    IF last.arg = None \/ last.arg = Str("")
      THEN last.raised = "ValueError" /\ ~Usable
      ELSE /\ last.raised = "" /\ Usable
           /\ base_url # ""
           /\ tool_call_logs = <<>>

C23_SessionEnds ==
  /\ \A i \in Sessions : (gens[i].pc # "unused") ~> (gens[i].pc = "done")
  /\ [](\A i \in Sessions :
          /\ gens[i].posts <= 1
          /\ gens[i].pc \in {"unused", "created"} => gens[i].posts = 0
          /\ gens[i].pc \in {"at127", "at144", "at148", "at153"}
               => gens[i].posts = 1)
  /\ [][last'.op = "pull" /\ last' # last =>
          LET i == last'.sid
          IN /\ gens[i].pc = "done" =>
                  last'.ret = NoValue /\ gens' = gens
                    /\ last'.requests = 0
             /\ gens[i].pc = "created" =>
                  /\ last'.requests = 1 /\ gens'[i].posts = 1
                  /\ last'.url = base_url \o "/chat/stream"
             /\ gens[i].pc \notin {"created", "at127"} =>
                  last'.requests = 0 /\ gens'[i].posts = gens[i].posts]_vars

\* A session has ended after its error chunk and has been pulled again.
C23_Witness ==
  /\ last.op = "pull" /\ last.raised = "StopIteration"
  /\ gens[last.sid].pc = "done" /\ gens[last.sid].failed
  /\ gens[last.sid].posts = 1 /\ Len(gens[last.sid].chunks) = 2

\* C24: a send, a handle_tool_call and a line processed by a streaming
\* session leave the log before the step a prefix of the log after it; a
\* step that removes or changes an entry is the caller's drain or the first
\* pull of a session whose stream opens, and it leaves the log empty.
C24_AppendOnly ==
  [][/\ last'.op \in {"send", "tool", "setup", "stream"} =>
          IsPrefix(tool_call_logs, tool_call_logs')
     /\ (\E i \in Sessions : ReadsLine(gens[i], gens'[i])) =>
          IsPrefix(tool_call_logs, tool_call_logs')
     /\ ~IsPrefix(tool_call_logs, tool_call_logs') =>
          /\ tool_call_logs' = <<>>
          /\ \/ last'.op = "drain"
             \/ /\ last'.op = "pull"
                /\ gens[last'.sid].pc = "created"
                /\ Opened(gens'[last'.sid])]_vars

\* A send has appended its tool call behind the entry that was there, and a
\* handle_tool_call its record behind both.
C24_Witness ==
  /\ last.op = "tool" /\ Len(tool_call_logs) = 2
  /\ tool_call_logs[1] = E1 /\ IsCallRecord(tool_call_logs[2])

\* The generator is suspended: it has been made or has yielded, and waits
\* for the next pull.
Suspended(g) == g.pc \in {"created", "at144", "at148", "at153"}

\* C25: a streaming session advances only inside a pull.  The call of
\* handle_message_stream sends no request and leaves the log; the POST is
\* issued, and the log reset, by the first pull of the session; lines are
\* read only by a generator that is running; the generator goes on reading
\* after a line that is no payload and stops reading at a payload line; and
\* a step of any other operation leaves a suspended session where it
\* stands and puts into the log only what that operation puts there.
C25_ConsumerDriven ==
  [][/\ last'.op = "stream" =>
          /\ last'.requests = 0 /\ tool_call_logs' = tool_call_logs
          /\ gens'[last'.sid].posts = 0 /\ gens'[last'.sid].consumed = <<>>
          /\ ~gens'[last'.sid].open
     /\ \A i \in DOMAIN gens :
          /\ gens'[i].posts > gens[i].posts =>
               /\ last'.op = "pull" /\ last'.sid = i /\ last'.requests = 1
               /\ gens[i].pc = "created"
               /\ Opened(gens'[i]) => tool_call_logs' = <<>>
          /\ ReadsLine(gens[i], gens'[i]) =>
               LET line == gens'[i].consumed[Len(gens'[i].consumed)]
               IN /\ gens[i].pc = "at127"
                  /\ IsPayload(line) <=> gens'[i].pc # "at127"
          /\ (Suspended(gens[i]) /\ ~(last'.op = "pull" /\ last'.sid = i)) =>
               gens'[i] = gens[i]
     /\ last'.op = "send" =>
          tool_call_logs' = HandleMessage(tool_call_logs, last'.outcome).logs
     /\ last'.op = "tool" =>
          tool_call_logs' =
            HandleToolCall(tool_call_logs, last'.arg, last'.behaviour).logs]_vars

\* A send has run while session 1 was suspended behind its first chunk, with
\* one line read, and has appended to the log.
C25_Witness ==
  /\ last.op = "send" /\ tool_call_logs # <<>>
  /\ gens[1].pc = "at144" /\ Len(gens[1].consumed) = 1
  /\ Len(gens[1].chunks) = 1

\* The chunk ends with a space.
EndsWithSpace(c) == c # "" /\ SubSeq(c, Len(c), Len(c)) = " "

\* Every chunk of the session but an error chunk ends with a space, and the
\* session never stands at the flush of line 148.
ChunksJoinSafe(g) ==
  /\ g.pc # "at148"
  /\ \A k \in DOMAIN g.chunks :
       IsErrorChunk(g.chunks[k]) \/ EndsWithSpace(g.chunks[k])

C27_Released ==
  /\ [](\A i \in Sessions :
          /\ (gens[i].pc \in {"done", "at153"} \/ gens[i].failed)
               => ~gens[i].open
          /\ gens[i].pc \in {"at127", "at144", "at148"} => gens[i].open
          /\ gens[i].open => Opened(gens[i]))
  /\ [][last'.op = "close" =>
          /\ gens'[last'.sid].pc = "done" /\ ~gens'[last'.sid].open
          /\ gens'[last'.sid].chunks = gens[last'.sid].chunks
          /\ tool_call_logs' = tool_call_logs]_vars

\* The consumer has closed a session that was suspended behind a chunk,
\* with its stream open and not exhausted.
C27_Witness ==
  /\ last.op = "close"
  /\ gens[last.sid].pc = "done" /\ ~gens[last.sid].failed
  /\ Opened(gens[last.sid]) /\ Len(gens[last.sid].chunks) = 1
  /\ ~gens[last.sid].open

\* C28: with two sessions of one client pulled in turn, the first pull of a
\* session made while the other session has its stream open leaves the log
\* empty, whatever the other session has put there; a line a session
\* processes afterwards puts its tool calls behind everything the log
\* holds, and so do a send and a handle_tool_call run between two pulls.
C28_SharedLog ==
  [][/\ \A i \in DOMAIN gens :
          /\ (/\ gens[i].pc = "created" /\ gens'[i].pc # "created"
              /\ \E j \in DOMAIN gens : j # i /\ gens[j].open) =>
               tool_call_logs' = <<>>
          /\ ReadsLine(gens[i], gens'[i]) =>
               tool_call_logs' =
                 tool_call_logs
                   \o CallsIn(gens'[i].consumed[Len(gens'[i].consumed)])
     /\ last'.op \in {"send", "tool"} =>
          IsPrefix(tool_call_logs, tool_call_logs')]_vars

\* The call of handle_message fails on this outcome: the POST raises, the
\* status is an error, the body is not JSON, or the body is JSON of a shape
\* the try block raises on.
SendFails(logs, outcome) == ~SendTry(logs, outcome).res.ok

\* C29: a send that fails returns an error sentinel and leaves the log
\* exactly as it was; a transport exception, an error status, a body that
\* is not JSON and a body that is no object, or whose tool_calls is no
\* list, make it fail.
C29_FailedSendKeepsLog ==
  [][last'.op = "send" =>
       /\ SendFails(tool_call_logs, last'.outcome) =>
            /\ tool_call_logs' = tool_call_logs
            /\ last'.ret.t = "str" /\ IsErrorChunk(last'.ret.s)
       /\ (\/ last'.outcome.k = "exc"
           \/ last'.outcome.code >= 400
           \/ ~JsonLoads(last'.outcome.body).ok
           \/ ~WellFormedBody(last'.outcome.body)) =>
            SendFails(tool_call_logs, last'.outcome)
       /\ (last'.ret.t = "str" /\ IsErrorChunk(last'.ret.s)) =>
            tool_call_logs' = tool_call_logs]_vars

\* A send whose body carries a tool_calls field that is no list has failed
\* while the log held an entry.
C29_Witness ==
  /\ last.op = "send" /\ last.outcome.body = TxtHiBadCalls
  /\ last.ret.t = "str" /\ IsErrorChunk(last.ret.s)
  /\ tool_call_logs = <<E1>>

\* The key set ToolCall1..ToolCalln.
KeysTo(n) == {KeyOf(j) : j \in 1..n}

\* C30: at the end of a turn in which the log holds n entries, the
\* utterance log of either driver has exactly the keys ToolCall1 to
\* ToolCall(n+1), the first n hold the entries of the log in log order, the
\* last one the Store call, and the log is empty afterwards.
C30_UtteranceLog ==
  [][last'.op = "drain" =>
       LET n == Len(tool_call_logs)
           d == last'.ret.m
       IN /\ DOMAIN d = KeysTo(n + 1)
          /\ \A j \in 1..n : d[KeyOf(j)] = tool_call_logs[j]
          /\ Field(d[KeyOf(n + 1)], "Tool_call_Destination") = Str("Store")
          /\ tool_call_logs' = <<>>]_vars

====
